---- MODULE Spec2Model ----
(***************************************************************************)
(* A model of aurora_di.py: the dependency definitions (Reference, Value,  *)
(* List, Dict), _normalize_dependency, inject and the descriptor made by   *)
(* create_descriptor.                                                      *)
(*                                                                         *)
(* Python objects are records of one shape [k, n, s, p]:                   *)
(*   k  the kind of object, n an integer (an int's value, or the identity  *)
(*   of a namespace / List / Dict object), s a str's characters (a         *)
(*   Reference's path), p the payload of a Value (a sequence of length 1). *)
(* A str is a sequence of characters, so that str.split('.') is computed.  *)
(* List and Dict objects are mutable and live in the heaps lists, dicts.   *)
(***************************************************************************)
EXTENDS Integers, Sequences, FiniteSets, TLC

VARIABLES
    lists,      \* heap of List objects: identity -> entries
    dicts,      \* heap of Dict objects: identity -> (key, val) items
    resolved,   \* the List / Dict objects whose resolve has returned
    calls,      \* the calls the target factory has received
    tattrs,     \* the attributes written on each target
    spec,       \* (arg_spec, attr_spec) bound by create_descriptor
    cache,      \* Descriptor.cache
    hist,       \* per owning instance: what its reads have done so far
    pc,         \* per thread: where it stands in __get__
    tmp,        \* per thread: its instance and the value it holds
    lastWrite,  \* per cache key: the target of the latest cache store
    ret,        \* the latest operation: its inputs and its outcome
    ops         \* the number of operations performed so far

vars == <<lists, dicts, resolved, calls, tattrs, spec, cache, hist, pc, tmp,
          lastWrite, ret, ops>>

\* ------------------------------------------------------------- bounds
\* Longest List definition drawn as an input.
MaxLen == 2
\* Most positional definitions in one inject call.
MaxArgs == 2
\* Most reads one thread performs.
MaxReads == 2
\* Most operations in one behaviour.
MaxOps == 3
\* Longest str drawn as an input of _normalize_dependency.
MaxStr == 2

\* ------------------------------------------------------------- objects
IntV(i) == [k |-> "int", n |-> i, s |-> <<>>, p |-> <<>>]
StrV(cs) == [k |-> "str", n |-> 0, s |-> cs, p |-> <<>>]
ObjV(id) == [k |-> "obj", n |-> id, s |-> <<>>, p |-> <<>>]
NoneV == [k |-> "none", n |-> 0, s |-> <<>>, p |-> <<>>]

\* Reference(reference): __init__ stores the path.
RefDep(cs) == [k |-> "Reference", n |-> 0, s |-> cs, p |-> <<>>]
\* Value(value): __init__ stores the payload.
ValDep(v) == [k |-> "Value", n |-> 0, s |-> <<>>, p |-> <<v>>]
\* A List / Dict definition is the list / dict object itself.
ListDep(id) == [k |-> "List", n |-> id, s |-> <<>>, p |-> <<>>]
DictDep(id) == [k |-> "Dict", n |-> id, s |-> <<>>, p |-> <<>>]
\* A str subclass that also derives from Dependency: it is a str and it
\* exposes resolve, the one inherited from Dependency.
DepStr(cs) == [k |-> "DepStr", n |-> 0, s |-> cs, p |-> <<>>]

\* hasattr(dependency, 'resolve')
HasResolve(v) == v.k \in {"Reference", "Value", "List", "Dict", "DepStr"}
\* isinstance(dependency, str)
IsStr(v) == v.k \in {"str", "DepStr"}

\* ------------------------------------------------------------- strings
\* str.split('.'): the pieces between the dots, empty pieces kept.
RECURSIVE SplitFrom(_, _)
SplitFrom(cs, cur) ==
    IF cs = <<>> THEN <<cur>>
    ELSE IF Head(cs) = "." THEN <<cur>> \o SplitFrom(Tail(cs), <<>>)
    ELSE SplitFrom(Tail(cs), Append(cur, Head(cs)))

Split(cs) == SplitFrom(cs, <<>>)

\* ------------------------------------------------------------- containers
\* The namespace objects used as containers and owning instances, and the
\* objects their attributes hold.  1 and 2 are two plain containers; 3 and 4
\* hang under them as attribute a; 5 and 6 are two distinct instances of a
\* class whose __eq__ and __hash__ make them equal.
Attrs ==
    ( 1 :> ( <<"g">> :> StrV(<<"h">>) @@ <<"h">> :> IntV(7) @@
             <<"a">> :> ObjV(3) @@ <<"n">> :> IntV(1) ) ) @@
    ( 2 :> ( <<"g">> :> StrV(<<"n">>) @@ <<"h">> :> IntV(8) @@
             <<"a">> :> ObjV(4) @@ <<"n">> :> IntV(5) ) ) @@
    ( 3 :> ( <<"b">> :> IntV(2) ) ) @@
    ( 4 :> ( <<"b">> :> IntV(3) ) ) @@
    ( 5 :> ( <<"g">> :> StrV(<<"h">>) @@ <<"h">> :> IntV(7) @@
             <<"a">> :> ObjV(3) @@ <<"n">> :> IntV(1) ) ) @@
    ( 6 :> ( <<"g">> :> StrV(<<"h">>) @@ <<"h">> :> IntV(7) @@
             <<"a">> :> ObjV(3) @@ <<"n">> :> IntV(1) ) )

Containers == {1, 2}
Instances == {1, 2, 5, 6}

\* hash / == of an owning instance, as the dict of the descriptor sees it:
\* object identity for 1 and 2, one shared key for the equal instances 5, 6.
HashKey(i) == IF i \in {5, 6} THEN 5 ELSE i

\* ------------------------------------------------------------- resolution
\* The mutable world a resolution runs in: the heaps and the number of
\* getattr calls made on the way.
Ok(v, st) == [err |-> "", val |-> v, st |-> st]
Err(e, st) == [err |-> e, val |-> NoneV, st |-> st]

\* getattr(target, part): only namespace objects carry the modelled names.
HasAttr(target, part) == target.k = "obj" /\ target.n \in DOMAIN Attrs
                         /\ part \in DOMAIN Attrs[target.n]

\* Reference.resolve: for part in split('.'): target = getattr(target, part)
RECURSIVE Walk(_, _, _)
Walk(target, parts, st) ==
    IF parts = <<>> THEN Ok(target, st)
    ELSE LET st1 == [st EXCEPT !.n = @ + 1]
         IN IF HasAttr(target, Head(parts))
            THEN Walk(Attrs[target.n][Head(parts)], Tail(parts), st1)
            ELSE Err("AttributeError", st1)

ReferenceResolve(d, c, st) == Walk(c, Split(d.s), st)

\* Value.resolve that consults the container.
ValueResolveLookup(d, c, st) == Ok(d.p[1], [st EXCEPT !.n = @ + 1])

\* Value.resolve
ValueResolve(d, c, st) == Ok(d.p[1], st)

\* _normalize_dependency with the str test before the resolve test.
NormalizeStrFirst(dependency) ==
    IF IsStr(dependency) THEN RefDep(dependency.s)
    ELSE IF HasResolve(dependency) THEN dependency
    ELSE ValDep(dependency)

\* _normalize_dependency
_normalize_dependency(dependency) ==
    IF HasResolve(dependency) THEN dependency
    ELSE IF IsStr(dependency) THEN RefDep(dependency.s)
    ELSE ValDep(dependency)

\* self[key] = value on a dict kept as a sequence of (key, val) items.
DictSet(items, key, value) ==
    [j \in 1..Len(items) |->
        IF items[j].key = key THEN [key |-> key, val |-> value] ELSE items[j]]

RECURSIVE DepResolve(_, _, _)
RECURSIVE ListLoop(_, _, _, _)
RECURSIVE DictLoop(_, _, _, _)

\* self[i] = value.resolve(container), r being the outcome of the resolve:
\* an error leaves the loop, a value is stored and the loop goes on.
ListStore(id, i, c, r) ==
    IF r.err # "" THEN r
    ELSE ListLoop(id, i + 1, c, [r.st EXCEPT !.lists[id][i] = r.val])

\* List.resolve, from entry i on: normalize, resolve, store.
ListLoop(id, i, c, st) ==
    IF i > Len(st.lists[id]) THEN Ok(ListDep(id), st)
    ELSE ListStore(id, i, c, DepResolve(_normalize_dependency(st.lists[id][i]), c, st))

\* self[key] = value.resolve(container), r being the outcome of the resolve.
DictStore(id, i, c, key, r) ==
    IF r.err # "" THEN r
    ELSE DictLoop(id, i + 1, c,
                  [r.st EXCEPT !.dicts[id] = DictSet(@, key, r.val)])

\* Dict.resolve, from item i of self.items() on.
DictLoop(id, i, c, st) ==
    IF i > Len(st.dicts[id]) THEN Ok(DictDep(id), st)
    ELSE DictStore(id, i, c, st.dicts[id][i].key,
                   DepResolve(_normalize_dependency(st.dicts[id][i].val), c, st))

\* List.resolve that returns without storing the resolved entries.
ListResolveNoStore(d, c, st) == Ok(d, st)

ListResolve(d, c, st) == ListLoop(d.n, 1, c, st)

DictResolve(d, c, st) == DictLoop(d.n, 1, c, st)

\* dependency.resolve(container), by the class of the definition.
DepResolve(d, c, st) ==
    CASE d.k = "Reference" -> ReferenceResolve(d, c, st)
      [] d.k = "Value" -> ValueResolve(d, c, st)
      [] d.k = "List" -> ListResolve(d, c, st)
      [] d.k = "Dict" -> DictResolve(d, c, st)
      [] OTHER -> Err("NotImplementedError", st)

\* ------------------------------------------------------------- inject
\* The lambda handed to map in inject takes (key, value) ...
LambdaParams == 2
\* ... and map, given one iterable, calls it with one argument per item.
MapIterables == 1

\* attr_spec.update(map(lambda key, value: (key, normalize(value)),
\*                      attr_spec.items()))
\* update draws the items of the map one by one; the first one drawn calls
\* the lambda, which raises TypeError unless the argument count fits.
AttrSpecUpdate(attr_spec) ==
    IF Len(attr_spec) = 0 THEN [err |-> "", attrs |-> attr_spec]
    ELSE IF MapIterables # LambdaParams
    THEN [err |-> "TypeError", attrs |-> attr_spec]
    ELSE [err |-> "",
          attrs |-> [j \in 1..Len(attr_spec) |->
                        [key |-> attr_spec[j].key,
                         val |-> _normalize_dependency(attr_spec[j].val)]]]

\* list(map(lambda item: item.resolve(container), arg_spec)), from
\* definition i on; arg_spec is the lazy map of _normalize_dependency.
RECURSIVE ArgLoop(_, _, _, _, _)

\* One item of the list: r is the outcome of item.resolve(container).
ArgAppend(arg_spec, i, c, args, r) ==
    IF r.err # "" THEN r
    ELSE ArgLoop(arg_spec, i + 1, c, r.st, Append(args, r.val))

ArgLoop(arg_spec, i, c, st, args) ==
    IF i > Len(arg_spec) THEN Ok(args, st)
    ELSE ArgAppend(arg_spec, i, c, args,
                   DepResolve(_normalize_dependency(arg_spec[i]), c, st))

\* The resolved positional arguments, last definition first.
Reversed(r) ==
    IF r.err # "" THEN r
    ELSE [r EXCEPT !.val = [i \in 1..Len(r.val) |-> r.val[Len(r.val) + 1 - i]]]

ResolveArgsReversed(arg_spec, c, st) == Reversed(ArgLoop(arg_spec, 1, c, st, <<>>))

ResolveArgs(arg_spec, c, st) == ArgLoop(arg_spec, 1, c, st, <<>>)

\* The target the factory returns on its next call: a fresh object.
TargetBase == 10
NewTarget(fcalls) == ObjV(TargetBase + Len(fcalls) + 1)

\* for key in list(attr_spec):
\*     setattr(target, key, attr_spec[key].resolve(container))
RECURSIVE AttrLoop(_, _, _, _, _)

\* setattr(target, key, r): r is the outcome of attr_spec[key].resolve.
AttrWrite(attr_spec, i, c, writes, r) ==
    IF r.err # "" THEN [err |-> r.err, st |-> r.st, writes |-> writes]
    ELSE AttrLoop(attr_spec, i + 1, c, r.st,
                  Append(writes, [key |-> attr_spec[i].key, val |-> r.val]))

AttrLoop(attr_spec, i, c, st, writes) ==
    IF i > Len(attr_spec) THEN [err |-> "", st |-> st, writes |-> writes]
    ELSE AttrWrite(attr_spec, i, c, writes,
                   DepResolve(attr_spec[i].val, c, st))

\* The outcome of inject: the error raised or the target returned, the heaps,
\* the calls the factory has received and the attributes written.
Raised(e, st, fcalls, fattrs) ==
    [err |-> e, val |-> NoneV, st |-> st, calls |-> fcalls, tattrs |-> fattrs]

\* Lines 153-156: w is the outcome of the loop over attr_spec.
InjectReturn(target, fcalls, fattrs, w) ==
    IF w.err # "" THEN Raised(w.err, w.st, fcalls, Append(fattrs, w.writes))
    ELSE [err |-> "", val |-> target, st |-> w.st, calls |-> fcalls,
          tattrs |-> Append(fattrs, w.writes)]

\* Line 151 on: a is the outcome of resolving the positional definitions;
\* the factory is called with the resolved arguments, then the attributes
\* are written.  The factory's record of a call keeps the container and the
\* heaps as they are when it is called.
InjectCall(c, attrs, fcalls, fattrs, a) ==
    IF a.err # "" THEN Raised(a.err, a.st, fcalls, fattrs)
    ELSE InjectReturn(NewTarget(fcalls),
            Append(fcalls, [args |-> a.val, target |-> NewTarget(fcalls),
                            c |-> c.n, lists |-> a.st.lists,
                            dicts |-> a.st.dicts]),
            fattrs, AttrLoop(attrs, 1, c, a.st, <<>>))

\* Line 150 on: u is the outcome of the update of attr_spec.
InjectArgs(c, arg_spec, st, fcalls, fattrs, u) ==
    IF u.err # "" THEN Raised(u.err, st, fcalls, fattrs)
    ELSE InjectCall(c, u.attrs, fcalls, fattrs, ResolveArgs(arg_spec, c, st))

\* inject(target_factory, container, *arg_spec, **attr_spec); fcalls and
\* fattrs are the calls target_factory has received and the attributes
\* written on its targets so far.
inject(c, arg_spec, attr_spec, st, fcalls, fattrs) ==
    InjectArgs(c, arg_spec, st, fcalls, fattrs, AttrSpecUpdate(attr_spec))

\* ------------------------------------------------------------- descriptor
\* The Descriptor object itself, returned when read on the class.
DescriptorSelf == [k |-> "Descriptor", n |-> 0, s |-> <<>>, p |-> <<>>]
\* instance is None
NoInstance == 0

\* self.cache[instance] = value that keeps an entry already there.
CacheStoreFirstWins(cch, key, value) ==
    IF key \in DOMAIN cch THEN cch ELSE cch @@ (key :> value)

\* self.cache[instance] = value: the dict finds the slot by hash and ==.
CacheStore(cch, key, value) ==
    [x \in DOMAIN cch \cup {key} |-> IF x = key THEN value ELSE cch[x]]

\* key in self.cache, i.e. self.cache[instance] raises no KeyError.
Cached(cch, instance) == HashKey(instance) \in DOMAIN cch

GetResult(e, v, cch, st, fcalls, fattrs, hit) ==
    [err |-> e, val |-> v, cache |-> cch, st |-> st, calls |-> fcalls,
     tattrs |-> fattrs, hit |-> hit]

\* except KeyError: self.cache[instance] = inject(...);
\*                  return self.cache[instance]
\* r is the outcome of inject; an error leaves the cache as it is.
GetMiss(instance, cch, r) ==
    IF r.err # ""
    THEN GetResult(r.err, NoneV, cch, r.st, r.calls, r.tattrs, FALSE)
    ELSE GetResult("", CacheStore(cch, HashKey(instance), r.val)[HashKey(instance)],
                   CacheStore(cch, HashKey(instance), r.val),
                   r.st, r.calls, r.tattrs, FALSE)

\* Descriptor.__get__ without the try: it injects on every read.
DescriptorGetNoCache(instance, sp, cch, st, fcalls, fattrs) ==
    GetMiss(instance, cch,
            inject(ObjV(instance), sp.args, sp.attrs, st, fcalls, fattrs))

\* Descriptor.__get__(self, instance, owner), run without interruption.
__get__(instance, sp, cch, st, fcalls, fattrs) ==
    IF instance = NoInstance
    THEN GetResult("", DescriptorSelf, cch, st, fcalls, fattrs, FALSE)
    ELSE IF Cached(cch, instance)
    THEN GetResult("", cch[HashKey(instance)], cch, st, fcalls, fattrs, TRUE)
    ELSE GetMiss(instance, cch,
                 inject(ObjV(instance), sp.args, sp.attrs, st, fcalls, fattrs))

\* ------------------------------------------------------------- inputs
G == <<"g">>
AB == <<"a", ".", "b">>
MP == <<"m", ".", "p">>
N == <<"n">>

\* Raw entries of a specification: bare strings (one that resolves to a str,
\* a dotted one, a missing one), a plain value, explicit definitions, a Value
\* wrapping a str and one wrapping a definition, and a str that is a
\* Dependency.
Leaves == { StrV(G), StrV(MP), IntV(1), ValDep(StrV(G)), RefDep(N),
            ValDep(RefDep(N)), DepStr(G) }

Entries == Leaves \cup { ListDep(2), DictDep(1) }

SeqsUpTo(S, n) == UNION { [1..m -> S] : m \in 0..n }

NestedList == <<StrV(AB), IntV(1)>>

DictInput == << [key |-> <<"x">>, val |-> StrV(G)],
                [key |-> <<"y">>, val |-> IntV(1)],
                [key |-> <<"z">>, val |-> ListDep(2)] >>

Heap(n) == [lists |-> lists, dicts |-> dicts, n |-> n]

NoRet == [op |-> "none"]

\* The variables the resolution operations leave alone.
RestOfResolve == <<calls, tattrs, spec, cache, hist, pc, tmp, lastWrite>>

Idle ==
    /\ calls = <<>>
    /\ tattrs = <<>>
    /\ spec = [args |-> <<>>, attrs |-> <<>>]
    /\ cache = <<>>
    /\ hist = <<>>
    /\ pc = <<>>
    /\ tmp = <<>>
    /\ lastWrite = <<>>

\* ------------------------------------------------------------- resolve
InitResolve ==
    /\ \E top \in SeqsUpTo(Entries, MaxLen) :
          lists = (1 :> top) @@ (2 :> NestedList)
    /\ dicts = (1 :> DictInput)
    /\ resolved = {}
    /\ ret = NoRet
    /\ ops = 0
    /\ Idle

\* L.resolve(container) on the List object id.
DoListResolve(id, c) ==
    \E r \in {ListResolve(ListDep(id), ObjV(c), Heap(0))} :
       /\ ops < MaxOps
       /\ ops' = ops + 1
       /\ lists' = r.st.lists
       /\ dicts' = r.st.dicts
       /\ resolved' = IF r.err = "" THEN resolved \cup {ListDep(id)}
                      ELSE resolved
       /\ ret' = [op |-> "List.resolve", d |-> ListDep(id), c |-> c,
                  err |-> r.err, val |-> r.val, n |-> r.st.n,
                  lists |-> lists, dicts |-> dicts,
                  second |-> ListDep(id) \in resolved]
       /\ UNCHANGED RestOfResolve

\* D.resolve(container) on the Dict object id.
DoDictResolve(id, c) ==
    \E r \in {DictResolve(DictDep(id), ObjV(c), Heap(0))} :
       /\ ops < MaxOps
       /\ ops' = ops + 1
       /\ lists' = r.st.lists
       /\ dicts' = r.st.dicts
       /\ resolved' = IF r.err = "" THEN resolved \cup {DictDep(id)}
                      ELSE resolved
       /\ ret' = [op |-> "Dict.resolve", d |-> DictDep(id), c |-> c,
                  err |-> r.err, val |-> r.val, n |-> r.st.n,
                  lists |-> lists, dicts |-> dicts,
                  second |-> DictDep(id) \in resolved]
       /\ UNCHANGED RestOfResolve

NextResolve ==
    \/ \E id \in DOMAIN lists, c \in Containers : DoListResolve(id, c)
    \/ \E id \in DOMAIN dicts, c \in Containers : DoDictResolve(id, c)

SpecResolve == InitResolve /\ [][NextResolve]_vars

\* ------------------------------------------------------------- inject calls
ArgRaws == { StrV(G), StrV(MP), IntV(1), ValDep(StrV(G)), ListDep(1) }

AttrSpecs == { <<>>, << [key |-> <<"x">>, val |-> StrV(N)] >> }

InitInject ==
    /\ lists = (1 :> <<StrV(AB), IntV(1)>>)
    /\ dicts = (1 :> <<>>)
    /\ resolved = {}
    /\ ret = NoRet
    /\ ops = 0
    /\ Idle

\* One call of inject with a factory that has not been called yet.
DoInject(c, arg_spec, attr_spec) ==
    \E r \in {inject(ObjV(c), arg_spec, attr_spec, Heap(0), <<>>, <<>>)} :
       /\ lists' = r.st.lists
       /\ dicts' = r.st.dicts
       /\ calls' = r.calls
       /\ tattrs' = r.tattrs
       /\ ret' = [op |-> "inject", c |-> c, args |-> arg_spec,
                  attrs |-> attr_spec, err |-> r.err, val |-> r.val,
                  n |-> r.st.n, lists |-> lists, dicts |-> dicts]
       /\ UNCHANGED <<resolved, ops, spec, cache, hist, pc, tmp, lastWrite>>

NextInject ==
    \E c \in Containers, arg_spec \in SeqsUpTo(ArgRaws, MaxArgs),
       attr_spec \in AttrSpecs : DoInject(c, arg_spec, attr_spec)

SpecInject == InitInject /\ [][NextInject]_vars

\* ------------------------------------------------------------- reads
\* The definitions the List and the Dict of an accessor's spec start with.
SpecList == <<StrV(N), StrV(G)>>
SpecDict == << [key |-> <<"x">>, val |-> StrV(N)] >>

\* Positional specs handed to create_descriptor.
AccessorArgs == { <<>>, <<StrV(N)>>, <<StrV(MP)>>, <<ListDep(1)>>,
                  <<DictDep(1), StrV(G)>>, <<ValDep(StrV(G)), ListDep(1)>> }

NoReads == [tried |-> FALSE, results |-> {}, ncalls |-> 0, hits |-> FALSE]

\* create_descriptor(target_factory, *arg_spec, **attr_spec)
InitDescriptor ==
    /\ lists = (1 :> SpecList)
    /\ dicts = (1 :> SpecDict)
    /\ resolved = {}
    /\ \E a \in AccessorArgs, n \in AttrSpecs : spec = [args |-> a, attrs |-> n]
    /\ cache = <<>>
    /\ calls = <<>>
    /\ tattrs = <<>>
    /\ hist = [i \in Instances |-> NoReads]
    /\ ret = NoRet
    /\ ops = 0
    /\ pc = <<>>
    /\ tmp = <<>>
    /\ lastWrite = <<>>

\* One read of the accessor on an owning instance.
Get(instance) ==
    \E r \in {__get__(instance, spec, cache, Heap(0), calls, tattrs)},
       h \in {hist[instance]} :
       /\ cache' = r.cache
       /\ lists' = r.st.lists
       /\ dicts' = r.st.dicts
       /\ calls' = r.calls
       /\ tattrs' = r.tattrs
       /\ hist' = [hist EXCEPT ![instance] =
                    [tried |-> TRUE,
                     results |-> IF r.err = "" THEN h.results \cup {r.val}
                                 ELSE h.results,
                     ncalls |-> h.ncalls + (Len(r.calls) - Len(calls)),
                     hits |-> h.hits \/ r.hit]]
       /\ ret' = [op |-> "get", instance |-> instance, err |-> r.err,
                  val |-> r.val, hit |-> r.hit]
       /\ UNCHANGED <<resolved, ops, spec, pc, tmp, lastWrite>>

\* One read of the accessor on the class: instance is None.
GetOnClass ==
    \E r \in {__get__(NoInstance, spec, cache, Heap(0), calls, tattrs)} :
       /\ ret' = [op |-> "get", instance |-> NoInstance, err |-> r.err,
                  val |-> r.val, hit |-> r.hit]
       /\ UNCHANGED <<lists, dicts, resolved, calls, tattrs, spec, cache,
                      hist, pc, tmp, lastWrite, ops>>

NextDescriptor == (\E instance \in Instances : Get(instance)) \/ GetOnClass

SpecDescriptor == InitDescriptor /\ [][NextDescriptor]_vars

\* ------------------------------------------------------------- threads
\* Two threads reading the accessor; each statement of __get__ that touches
\* self.cache is a step of its own.  The specs read here hold no List or
\* Dict, so inject shares nothing with the other thread but the factory.
Threads == {1, 2}
ThreadInstances == {1, 2}
ThreadArgs == { <<>>, <<StrV(N)>>, <<StrV(MP)>> }

Fresh == [instance |-> NoInstance, val |-> NoneV, err |-> "", reads |-> 0,
          done |-> FALSE, after |-> FALSE]

KeyOf(t) == HashKey(tmp[t].instance)

\* No read of the instance(s) behind key is under way.
Quiet(key) == \A t \in Threads : pc[t] = "idle" \/ KeyOf(t) # key

InitThreads ==
    /\ lists = (1 :> SpecList)
    /\ dicts = (1 :> SpecDict)
    /\ resolved = {}
    /\ \E a \in ThreadArgs, n \in AttrSpecs : spec = [args |-> a, attrs |-> n]
    /\ cache = <<>>
    /\ calls = <<>>
    /\ tattrs = <<>>
    /\ hist = <<>>
    /\ ret = NoRet
    /\ ops = 0
    /\ pc = [t \in Threads |-> "idle"]
    /\ tmp = [t \in Threads |-> Fresh]
    /\ lastWrite = <<>>

ThreadRest == <<lists, dicts, resolved, spec, hist, ret, ops>>

\* try: return self.cache[instance] / except KeyError:
TryCache(t, instance) ==
    /\ pc[t] = "idle"
    /\ tmp[t].reads < MaxReads
    /\ IF Cached(cache, instance)
       THEN /\ tmp' = [tmp EXCEPT ![t] =
                        [instance |-> instance, val |-> cache[HashKey(instance)],
                         err |-> "", reads |-> tmp[t].reads + 1, done |-> TRUE,
                         after |-> Quiet(HashKey(instance))]]
            /\ pc' = pc
       ELSE /\ tmp' = [tmp EXCEPT ![t] =
                        [instance |-> instance, val |-> NoneV, err |-> "",
                         reads |-> tmp[t].reads + 1, done |-> FALSE,
                         after |-> FALSE]]
            /\ pc' = [pc EXCEPT ![t] = "miss"]
    /\ UNCHANGED <<cache, calls, tattrs, lastWrite>>
    /\ UNCHANGED ThreadRest

\* inject(target_factory, instance, *arg_spec, **attr_spec), the right-hand
\* side of line 179; an error ends the read.
RunInject(t) ==
    /\ pc[t] = "miss"
    /\ \E r \in {inject(ObjV(tmp[t].instance), spec.args, spec.attrs, Heap(0),
                         calls, tattrs)} :
          /\ calls' = r.calls
          /\ tattrs' = r.tattrs
          /\ tmp' = [tmp EXCEPT ![t].val = r.val, ![t].err = r.err,
                                ![t].done = (r.err # "")]
          /\ pc' = [pc EXCEPT ![t] = IF r.err # "" THEN "idle" ELSE "store"]
    /\ UNCHANGED <<cache, lastWrite>>
    /\ UNCHANGED ThreadRest

\* self.cache[instance] = <the target>, the store of line 179.
Store(t) ==
    /\ pc[t] = "store"
    /\ cache' = CacheStore(cache, KeyOf(t), tmp[t].val)
    /\ lastWrite' = [x \in DOMAIN lastWrite \cup {KeyOf(t)} |->
                        IF x = KeyOf(t) THEN tmp[t].val ELSE lastWrite[x]]
    /\ pc' = [pc EXCEPT ![t] = "return"]
    /\ UNCHANGED <<tmp, calls, tattrs>>
    /\ UNCHANGED ThreadRest

\* return self.cache[instance], line 181: the cache is read again.
Return(t) ==
    /\ pc[t] = "return"
    /\ tmp' = [tmp EXCEPT ![t].val = cache[KeyOf(t)], ![t].done = TRUE]
    /\ pc' = [pc EXCEPT ![t] = "idle"]
    /\ UNCHANGED <<cache, calls, tattrs, lastWrite>>
    /\ UNCHANGED ThreadRest

NextThreads ==
    \E t \in Threads :
        \/ \E instance \in ThreadInstances : TryCache(t, instance)
        \/ RunInject(t)
        \/ Store(t)
        \/ Return(t)

SpecThreads == InitThreads /\ [][NextThreads]_vars

\* ------------------------------------------------------------- normalize
Chars == {"a", "."}

Strs == SeqsUpTo(Chars, MaxStr)

\* Raw values of every kind the three tests of _normalize_dependency tell
\* apart, and each of them wrapped in a Value.
PlainRaws == { StrV(cs) : cs \in Strs } \cup { DepStr(cs) : cs \in Strs }
             \cup { RefDep(cs) : cs \in Strs }
             \cup { IntV(0), IntV(1), ObjV(1), NoneV, ListDep(1), DictDep(1) }

Raws == PlainRaws \cup { ValDep(v) : v \in PlainRaws }

InitNormalize ==
    /\ lists = (1 :> <<>>)
    /\ dicts = (1 :> <<>>)
    /\ resolved = {}
    /\ \E raw \in Raws, c \in Containers :
          ret = [op |-> "raw", d |-> raw, c |-> c, err |-> "", val |-> NoneV,
                 n |-> 0]
    /\ ops = 0
    /\ Idle

\* value = _normalize_dependency(value)
DoNormalize ==
    /\ ret.op = "raw"
    /\ ret' = [ret EXCEPT !.op = "normalized", !.val = _normalize_dependency(ret.d)]
    /\ UNCHANGED <<lists, dicts, resolved, ops>>
    /\ UNCHANGED RestOfResolve

\* value.resolve(container), on the normalized value.
DoResolve ==
    /\ ret.op = "normalized"
    /\ \E r \in {DepResolve(ret.val, ObjV(ret.c), Heap(0))} :
          /\ ret' = [ret EXCEPT !.op = "resolved", !.err = r.err,
                                !.val = r.val, !.n = r.st.n]
          /\ lists' = r.st.lists
          /\ dicts' = r.st.dicts
    /\ UNCHANGED <<resolved, ops>>
    /\ UNCHANGED RestOfResolve

NextNormalize == DoNormalize \/ DoResolve

SpecNormalize == InitNormalize /\ [][NextNormalize]_vars

\* ------------------------------------------------------------- claims
PreHeap == [lists |-> ret.lists, dicts |-> ret.dicts, n |-> 0]

\* What entry e of a composite holds once the composite is resolved against
\* c: the resolution of the normalized entry.
ExpectedEntry(e, c) == DepResolve(_normalize_dependency(e), ObjV(c), PreHeap).val

\* The values held in the composite d, those of nested composites included.
RECURSIVE LeavesOf(_, _)
LeavesOf(d, st) ==
    LET vals == IF d.k = "List"
                THEN { st.lists[d.n][i] : i \in 1..Len(st.lists[d.n]) }
                ELSE { st.dicts[d.n][i].val : i \in 1..Len(st.dicts[d.n]) }
    IN UNION { IF e.k \in {"List", "Dict"} THEN LeavesOf(e, st) ELSE {e}
               : e \in vals }

\* No value left in the composite d is a str or exposes resolve.
LeavesFixed(d, st) ==
    \A e \in LeavesOf(d, st) : ~IsStr(e) /\ ~HasResolve(e)

\* Some value left in d is a plain str, and none exposes resolve.
StrLeft(d, st) ==
    /\ \E e \in LeavesOf(d, st) : IsStr(e)
    /\ \A e \in LeavesOf(d, st) : ~HasResolve(e)

HeapUnchanged == lists = ret.lists /\ dicts = ret.dicts

SecondListResolve == ret.op = "List.resolve" /\ ret.second

\* C6 (as stated): a second resolve of an already resolved List re-runs no
\* attribute lookup and leaves every entry unchanged, whatever the first
\* resolution produced.
C6_SecondResolveIsNoOp ==
    SecondListResolve => ret.n = 0 /\ ret.err = "" /\ HeapUnchanged

\* C6 (amended): a second resolve of an already resolved List re-runs no
\* lookup and leaves the entries unchanged when no value the first resolution
\* left in it (nested List / Dict entries included) is a str or exposes
\* resolve; a str the first resolution left is looked up on the container
\* again.
C6_SecondResolveNoOpOnFixedLeaves ==
    SecondListResolve =>
        /\ LeavesFixed(ret.d, PreHeap) =>
              ret.n = 0 /\ ret.err = "" /\ HeapUnchanged
        /\ StrLeft(ret.d, PreHeap) => ret.n >= 1

\* A second resolve, against container 2, of the List whose first entry was
\* looked up (a.b) on container 1: no lookup is made.
C6_Witness ==
    /\ SecondListResolve
    /\ ret.d = ListDep(2) /\ ret.c = 2
    /\ lists[2] = <<IntV(2), IntV(1)>>
    /\ ret.n = 0

\* C7: _normalize_dependency returns a value exposing resolve as it is, else
\* turns a str into a Reference with that path, else wraps the value in a
\* Value; so a bare str is resolved by lookups on the container and a str
\* wrapped in Value is returned as the literal.
C7_NormalizePrecedence ==
    /\ ret.op = "normalized" =>
          /\ HasResolve(ret.d) => ret.val = ret.d
          /\ ~HasResolve(ret.d) /\ IsStr(ret.d) =>
                ret.val.k = "Reference" /\ ret.val.s = ret.d.s
          /\ ~HasResolve(ret.d) /\ ~IsStr(ret.d) =>
                ret.val.k = "Value" /\ ret.val.p = <<ret.d>>
    /\ ret.op = "resolved" /\ ret.d.k = "str" =>
          /\ ret.n >= 1
          /\ ret.d.s \in DOMAIN Attrs[ret.c] =>
                ret.err = "" /\ ret.val = Attrs[ret.c][ret.d.s]
          /\ Split(ret.d.s) = <<ret.d.s>> /\ ret.d.s \notin DOMAIN Attrs[ret.c]
                => ret.err = "AttributeError"
    /\ ret.op = "resolved" /\ ret.d.k = "Value" =>
          ret.n = 0 /\ ret.err = "" /\ <<ret.val>> = ret.d.p

\* A str that exposes resolve is returned as it is, not as a Reference.
C7_Witness ==
    ret.op = "normalized" /\ ret.d = DepStr(<<"a">>) /\ ret.val = ret.d

\* C8: a List (Dict) whose entries all resolve returns the same object, of
\* the same length (with the same keys, in the same order), every index
\* (key) holding the resolution of its normalized original entry.
C8_CompositeStructure ==
    /\ ret.op = "List.resolve" /\ ret.err = "" =>
          LET before == ret.lists[ret.d.n]
              after == lists[ret.d.n]
          IN /\ ret.val = ret.d
             /\ Len(after) = Len(before)
             /\ \A i \in 1..Len(before) :
                   after[i] = ExpectedEntry(before[i], ret.c)
    /\ ret.op = "Dict.resolve" /\ ret.err = "" =>
          LET before == ret.dicts[ret.d.n]
              after == dicts[ret.d.n]
          IN /\ ret.val = ret.d
             /\ Len(after) = Len(before)
             /\ \A i \in 1..Len(before) :
                   /\ after[i].key = before[i].key
                   /\ after[i].val = ExpectedEntry(before[i].val, ret.c)

\* A List of MaxLen entries, one a nested List and one a str, resolved
\* after the Dict was.
C8_Witness ==
    /\ ret.op = "List.resolve" /\ ret.err = "" /\ ret.d = ListDep(1)
    /\ Len(lists[1]) = MaxLen
    /\ \E i, j \in 1..MaxLen :
          ret.lists[1][i] = ListDep(2) /\ ret.lists[1][j] = StrV(G)
    /\ DictDep(1) \in resolved

\* Every raw definition of the call resolves on its own.
AllResolve(raws) ==
    \A i \in 1..Len(raws) :
        DepResolve(_normalize_dependency(raws[i]), ObjV(ret.c), PreHeap).err = ""

AttrVals(attr_spec) == [j \in 1..Len(attr_spec) |-> attr_spec[j].val]

\* C1: an inject call with named arguments whose resolutions all succeed
\* calls the factory once and writes each name, once, with the resolution of
\* its normalized definition.
C1_NamedAttributesAssigned ==
    ( /\ ret.op = "inject" /\ Len(ret.attrs) >= 1
      /\ AllResolve(ret.args) /\ AllResolve(AttrVals(ret.attrs)) )
    => /\ ret.err = ""
       /\ Len(calls) = 1
       /\ ret.val = calls[1].target
       /\ Len(tattrs[1]) = Len(ret.attrs)
       /\ \A j \in 1..Len(ret.attrs) :
             tattrs[1][j] = [key |-> ret.attrs[j].key,
                             val |-> ExpectedEntry(ret.attrs[j].val, ret.c)]

\* C2: an inject call without named arguments whose resolutions all succeed
\* calls the factory once, with the resolutions of the normalized positional
\* definitions in their order, writes no attribute and returns what the
\* factory returned; without definitions the factory gets no argument.
C2_PositionalInjection ==
    ret.op = "inject" /\ Len(ret.attrs) = 0 =>
        /\ ret.err = "" =>
              /\ Len(calls) = 1
              /\ Len(calls[1].args) = Len(ret.args)
              /\ \A i \in 1..Len(ret.args) :
                    calls[1].args[i] = ExpectedEntry(ret.args[i], ret.c)
              /\ tattrs = << <<>> >>
              /\ ret.val = calls[1].target
        /\ AllResolve(ret.args) => ret.err = ""
        /\ ret.err # "" => calls = <<>> /\ ret.val = NoneV

\* Two different positional definitions, a str looked up and a Value, and
\* the factory called with their resolutions in that order.
C2_Witness ==
    /\ ret.op = "inject" /\ ret.err = "" /\ ret.c = 1
    /\ ret.args = <<StrV(G), ValDep(StrV(G))>> /\ ret.attrs = <<>>
    /\ calls[1].args = <<StrV(<<"h">>), StrV(G)>>

\* Positional definition i is (or normalizes to) a Reference with a path
\* segment that is absent on the target it is looked up on.
MissingReference(raw) ==
    /\ _normalize_dependency(raw).k = "Reference"
    /\ ReferenceResolve(_normalize_dependency(raw), ObjV(ret.c), PreHeap).err
           = "AttributeError"

\* C3: an inject call with a positional Reference to a missing path ends in
\* the lookup failure, returns no target and never calls the factory.
C3_MissingReferenceAborts ==
    ( /\ ret.op = "inject"
      /\ \E i \in 1..Len(ret.args) : MissingReference(ret.args[i]) )
    => ret.err = "AttributeError" /\ ret.val = NoneV /\ calls = <<>>

\* The factory call that built target v.
CallOf(v) == CHOOSE j \in 1..Len(calls) : calls[j].target = v

OnlyRead(i) == \A j \in Instances \ {i} : ~hist[j].tried

\* C4: once a read of the accessor on an instance has succeeded, every later
\* read on it returns the same target and injects nothing; over reads on
\* that one instance the factory is called exactly once.
C4_ReadsAreMemoized ==
    \A i \in Instances :
        /\ Cardinality(hist[i].results) <= 1
        /\ hist[i].ncalls <= 1
        /\ hist[i].hits => hist[i].results # {}
        /\ hist[i].results # {} /\ OnlyRead(i) =>
              hist[i].ncalls = 1 /\ Len(calls) = 1

\* Instance 2 read, then read again from the cache: one target, one call.
C4_Witness ==
    /\ hist[2].hits /\ OnlyRead(2)
    /\ hist[2].results = {calls[1].target}
    /\ ret.op = "get" /\ ret.instance = 2 /\ ret.hit

\* C5: a read on an instance returns a target built by an injection that
\* used that very instance as the container, never the target of another
\* instance, equal to it or not.
C5_CacheKeyedByIdentity ==
    ret.op = "get" /\ ret.instance # NoInstance /\ ret.err = "" =>
        calls[CallOf(ret.val)].c = ret.instance

\* The List / Dict definition (as first written) resolved afresh against c.
FreshComposite(d, c) ==
    LET st == [lists |-> (1 :> SpecList), dicts |-> (1 :> SpecDict), n |-> 0]
        r == DepResolve(d, ObjV(c), st)
    IN IF d.k = "List" THEN r.st.lists[d.n] ELSE r.st.dicts[d.n]

CompositeArgs == { p \in 1..Len(spec.args) : spec.args[p].k \in {"List", "Dict"} }

\* C10: with a List or Dict in the accessor's positional spec, the targets
\* of two distinct instances each receive the values resolved against their
\* own instance, and not one shared list / mapping object.
C10_IndependentPerInstance ==
    \A j, m \in 1..Len(calls) : \A p \in CompositeArgs :
        ( calls[j].c \in {1, 2} /\ calls[m].c \in {1, 2} ) =>
            /\ LET d == calls[j].args[p]
                   got == IF d.k = "List" THEN calls[j].lists[d.n]
                          ELSE calls[j].dicts[d.n]
               IN got = FreshComposite(spec.args[p], calls[j].c)
            /\ j # m => calls[j].args[p] # calls[m].args[p]

\* C9: the check and the store of __get__ are separate steps, so two first
\* reads of one instance may both inject; once the reads of that instance
\* have finished the cache holds the target stored last, and a read begun
\* after that returns it.
C9_LastWriteWins ==
    /\ \A key \in DOMAIN lastWrite :
          Quiet(key) => key \in DOMAIN cache /\ cache[key] = lastWrite[key]
    /\ \A t \in Threads :
          pc[t] = "idle" /\ tmp[t].done /\ tmp[t].after /\ Quiet(KeyOf(t))
              => tmp[t].val = lastWrite[KeyOf(t)]

\* The factory was called twice for instance 1, both reads have finished,
\* and a read begun afterwards returned the target of the second call.
C9_Witness ==
    /\ Len(calls) = 2 /\ calls[1].c = 1 /\ calls[2].c = 1
    /\ \A t \in Threads : pc[t] = "idle"
    /\ \E t \in Threads :
          /\ tmp[t].done /\ tmp[t].after /\ tmp[t].instance = 1
          /\ tmp[t].val = lastWrite[1]
    /\ lastWrite[1] # calls[1].target

====
